---- MODULE Spec2Model ----
(***************************************************************************)
(* The UDF inventory plugins, plugins/inventory/udf.py and                 *)
(* plugins/inventory/udf_inventory.py: one inventory pass (parse) over the *)
(* deployment payload fetched from the metadata endpoint.                  *)
(*                                                                         *)
(* Python values are records tagged by kind; a raised exception is a value *)
(* of kind "raise" that travels up until an except clause names it.        *)
(***************************************************************************)
EXTENDS Integers, Sequences, FiniteSets, TLC

\* plugin_file  the plugin in use: "udf" (udf.py) or "udf_inventory" (udf_inventory.py)
\* options      what get_option returns: hostname (udf) or hostnames (udf_inventory), groups
\* response     what the metadata endpoint answers to the one request
\* pc           where parse is: "start", "loop", "done" (returned), "raised"
\* components   deployment_info['deployment']['components'], once fetched
\* idx          position of the loop in components (1-based; 0 before the loop)
\* inventory    the inventory sink
\* display      the warnings and errors displayed
\* exc          the exception that escaped parse, "none" if none did
VARIABLES plugin_file, options, response, pc, components, idx, inventory, display, exc

vars == <<plugin_file, options, response, pc, components, idx, inventory, display, exc>>

(***************************************************************************)
(* Bounds of the model.                                                    *)
(***************************************************************************)
MaxComponents == 2
MaxOsLen == 2
MaxPrefs == 2
MaxGroups == 2

(***************************************************************************)
(* Python values.                                                          *)
(***************************************************************************)
None == [kind |-> "none"]
Str(cs) == [kind |-> "str", s |-> cs]
PyInt(k) == [kind |-> "int", n |-> k]
List(xs) == [kind |-> "list", items |-> xs]
Dict(f) == [kind |-> "dict", d |-> f]
Raised(e) == [kind |-> "raise", exc |-> e]

\* bool(v)
Truthy(v) ==
  CASE v.kind = "none" -> FALSE
    [] v.kind = "str" -> v.s # <<>>
    [] v.kind = "int" -> v.n # 0
    [] v.kind = "list" -> v.items # <<>>
    [] v.kind = "dict" -> DOMAIN v.d # {}
    [] OTHER -> FALSE

\* v[k] for a str key k
GetKey(v, k) ==
  CASE v.kind = "raise" -> v
    [] v.kind = "dict" -> IF k \in DOMAIN v.d THEN v.d[k] ELSE Raised("KeyError")
    [] OTHER -> Raised("TypeError")

\* v[i] for an int index i >= 0
GetIndex(v, i) ==
  CASE v.kind = "raise" -> v
    [] v.kind = "dict" -> Raised("KeyError")
    [] v.kind = "list" -> IF i < Len(v.items) THEN v.items[i + 1] ELSE Raised("IndexError")
    [] v.kind = "str" -> IF i < Len(v.s) THEN Str(<<v.s[i + 1]>>) ELSE Raised("IndexError")
    [] OTHER -> Raised("TypeError")

\* try: return v / except caught: self.display.warning(msg); return None
TryExcept(v, caught, msg) ==
  IF v.kind = "raise" /\ v.exc \in caught
  THEN [val |-> None, warn |-> msg]
  ELSE [val |-> v, warn |-> {}]

UpperCase == <<"A", "B", "C", "D", "E", "F", "G", "H", "I", "J", "K", "L", "M",
               "N", "O", "P", "Q", "R", "S", "T", "U", "V", "W", "X", "Y", "Z">>
LowerCase == <<"a", "b", "c", "d", "e", "f", "g", "h", "i", "j", "k", "l", "m",
               "n", "o", "p", "q", "r", "s", "t", "u", "v", "w", "x", "y", "z">>

LowerChar(c) ==
  IF \E i \in 1..Len(UpperCase) : UpperCase[i] = c
  THEN LowerCase[CHOOSE i \in 1..Len(UpperCase) : UpperCase[i] = c]
  ELSE c

\* v.replace(old, new) for one-character old and new
StrReplace(v, old, new) ==
  CASE v.kind = "raise" -> v
    [] v.kind = "str" -> Str([i \in 1..Len(v.s) |-> IF v.s[i] = old THEN new ELSE v.s[i]])
    [] OTHER -> Raised("AttributeError")

\* v.lower()
StrLower(v) ==
  CASE v.kind = "raise" -> v
    [] v.kind = "str" -> Str([i \in 1..Len(v.s) |-> LowerChar(v.s[i])])
    [] OTHER -> Raised("AttributeError")

(***************************************************************************)
(* Field extractors.  Each returns [val, warn]: the value returned (or the *)
(* exception that escapes) and the warnings displayed.                     *)
(***************************************************************************)
extract_public_ipv4(host_infos) ==
  TryExcept(GetKey(host_infos, "mgmtIp"), {"KeyError", "TypeError", "IndexError"},
            {"extracting public IPv4 address"})

extract_private_ipv4(host_infos) ==
  TryExcept(GetKey(host_infos, "mgmtIp"), {"KeyError", "TypeError", "IndexError"},
            {"extracting private IPv4 address"})

extract_internal_ssh_port(host_infos) ==
  TryExcept(GetKey(GetIndex(GetKey(GetKey(host_infos, "accessMethods"), "ssh"), 0),
                   "internalPort"),
            {"KeyError", "TypeError", "IndexError"}, {})

extract_name(host_infos) ==
  TryExcept(GetKey(host_infos, "name"), {"KeyError", "TypeError"}, {"extracting name"})

extract_id(host_infos) ==
  TryExcept(GetKey(host_infos, "id"), {"KeyError", "TypeError"}, {"extracting id"})

extract_os_name(host_infos) ==
  TryExcept(GetKey(host_infos, "osName"), {"KeyError", "TypeError"},
            {"extracting OS name"})

extract_os_name_for_group(host_infos) ==
  TryExcept(StrLower(StrReplace(StrReplace(GetKey(host_infos, "osName"), " ", "_"),
                                ".", "_")),
            {"KeyError", "TypeError"}, {"extracting OS name for group"})

extract_hostname(host_infos) ==
  TryExcept(GetKey(host_infos, "id"), {"KeyError", "TypeError"}, {"extracting hostname"})

extract_deployment(host_infos) ==
  TryExcept(GetKey(GetKey(host_infos, "deployment"), "id"), {"KeyError", "TypeError"},
            {"extracting deployment id"})

\* self.extractors[pref](host_infos) for every pref of the table built by parse
extractors_udf(host_infos) ==
  [private_ipv4 |-> extract_private_ipv4(host_infos),
   id |-> extract_id(host_infos)]

extractors_inv(host_infos) ==
  [public_ipv4 |-> extract_public_ipv4(host_infos),
   private_ipv4 |-> extract_private_ipv4(host_infos),
   hostname |-> extract_hostname(host_infos)]

\* self.group_extractors[g](host_infos)
group_extractors_udf(host_infos) ==
  [os |-> extract_os_name_for_group(host_infos)]

group_extractors_inv(host_infos) ==
  [os |-> extract_os_name(host_infos)]

(***************************************************************************)
(* The inventory sink: hosts, their variables, groups and memberships.     *)
(* A run carries st = [inventory, display, exc]; exc is "none" until an    *)
(* exception escapes.                                                      *)
(***************************************************************************)
EmptyDict == [k \in {} |-> None]

EmptyInventory == [hosts |-> {}, hostvars |-> EmptyDict, groups |-> {}, children |-> {}]

EmptyDisplay == [warnings |-> {}, errors |-> {}]

\* self.inventory.add_host(host=..., group=...); group = None when not given
add_host(inv, host, group) ==
  [inv EXCEPT
     !.hosts = @ \cup {host},
     !.hostvars = [h \in DOMAIN @ \cup {host} |-> IF h \in DOMAIN @ THEN @[h] ELSE EmptyDict],
     !.children = IF group = None THEN @ ELSE @ \cup {<<group, host>>}]

\* self.inventory.set_variable(host, key, value)
set_variable(inv, host, key, value) ==
  [inv EXCEPT
     !.hostvars[host] = [a \in DOMAIN @ \cup {key} |-> IF a = key THEN value ELSE @[a]]]

\* self.inventory.add_group(group=...)
add_group(inv, group) ==
  [inv EXCEPT !.groups = @ \cup {group}]

\* if <cond extractor>(host_infos): set_variable(hostname, key, <value extractor>(host_infos))
SetIfPresent(st, hostname, key, cond, value) ==
  IF st.exc # "none" THEN st
  ELSE IF cond.val.kind = "raise" THEN [st EXCEPT !.exc = cond.val.exc]
  ELSE IF ~Truthy(cond.val) THEN [st EXCEPT !.display.warnings = @ \cup cond.warn]
  ELSE IF value.val.kind = "raise"
       THEN [st EXCEPT !.display.warnings = @ \cup cond.warn, !.exc = value.val.exc]
  ELSE [st EXCEPT !.display.warnings = @ \cup cond.warn \cup value.warn,
                  !.inventory = set_variable(@, hostname, key, value.val)]

_fill_host_variables_udf(st, hostname, host_infos) ==
  LET s1 == SetIfPresent(st, hostname, "private_ipv4",
                         extract_private_ipv4(host_infos), extract_private_ipv4(host_infos))
      s2 == SetIfPresent(s1, hostname, "internal_ssh_port",
                         extract_internal_ssh_port(host_infos),
                         extract_internal_ssh_port(host_infos))
      s3 == SetIfPresent(s2, hostname, "name", extract_name(host_infos), extract_name(host_infos))
      s4 == SetIfPresent(s3, hostname, "id", extract_id(host_infos), extract_name(host_infos))
  IN  SetIfPresent(s4, hostname, "os_name", extract_os_name(host_infos),
                   extract_os_name(host_infos))

_fill_host_variables_inv(st, hostname, host_infos) ==
  LET s0 == SetIfPresent(st, hostname, "public_ipv4",
                         extract_public_ipv4(host_infos), extract_public_ipv4(host_infos))
      s1 == SetIfPresent(s0, hostname, "private_ipv4",
                         extract_private_ipv4(host_infos), extract_private_ipv4(host_infos))
      s2 == SetIfPresent(s1, hostname, "internal_ssh_port",
                         extract_internal_ssh_port(host_infos),
                         extract_internal_ssh_port(host_infos))
      s3 == SetIfPresent(s2, hostname, "name", extract_name(host_infos), extract_name(host_infos))
      s4 == SetIfPresent(s3, hostname, "id", extract_id(host_infos), extract_name(host_infos))
  IN  SetIfPresent(s4, hostname, "os_name", extract_os_name(host_infos),
                   extract_os_name(host_infos))

\* udf.py: one preference, a str
_filter_host_udf(host_infos, hostname_preference) ==
  LET table == extractors_udf(host_infos) IN
  IF hostname_preference \notin DOMAIN table
  THEN [val |-> Raised("KeyError"), warn |-> {}]
  ELSE LET r == table[hostname_preference] IN
       IF r.val.kind = "raise" \/ Truthy(r.val) THEN r ELSE [val |-> None, warn |-> r.warn]

\* udf_inventory.py: the loop over the preference list, from position j
RECURSIVE FilterLoop_inv(_, _, _, _)
FilterLoop_inv(host_infos, hostname_preferences, j, warn) ==
  IF j > Len(hostname_preferences) THEN [val |-> None, warn |-> warn]
  ELSE LET table == extractors_inv(host_infos)
           pref == hostname_preferences[j]
       IN  IF pref \notin DOMAIN table
           THEN [val |-> Raised("KeyError"), warn |-> warn]
           ELSE LET r == table[pref] IN
                IF r.val.kind = "raise" \/ Truthy(r.val)
                THEN [val |-> r.val, warn |-> warn \cup r.warn]
                ELSE FilterLoop_inv(host_infos, hostname_preferences, j + 1, warn \cup r.warn)

\* variant of _filter_host: the loop runs the preference list backwards, so the
\* last present preference wins
_filter_host_inv_last(host_infos, hostname_preferences) ==
  FilterLoop_inv(host_infos,
                 [j \in 1..Len(hostname_preferences) |->
                    hostname_preferences[Len(hostname_preferences) + 1 - j]],
                 1, {})

_filter_host_inv(host_infos, hostname_preferences) ==
  FilterLoop_inv(host_infos, hostname_preferences, 1, {})

\* udf.py: for g in group_preferences, from position j
RECURSIVE GroupLoop_udf(_, _, _, _, _)
GroupLoop_udf(st, host_infos, hostname, group_preferences, j) ==
  IF j > Len(group_preferences) THEN st
  ELSE LET table == group_extractors_udf(host_infos)
           g == group_preferences[j]
       IN  IF g \notin DOMAIN table
           THEN [st EXCEPT !.display.warnings = @ \cup {"Invalid group name"}]
           ELSE LET r == table[g]
                    s1 == [st EXCEPT !.display.warnings = @ \cup r.warn]
                IN  IF r.val.kind = "raise" THEN [s1 EXCEPT !.exc = r.val.exc]
                    ELSE IF ~Truthy(r.val) THEN s1
                    ELSE GroupLoop_udf(
                           [s1 EXCEPT !.inventory =
                              add_host(add_group(@, r.val), hostname, r.val)],
                           host_infos, hostname, group_preferences, j + 1)

\* udf_inventory.py: for g in group_preferences, from position j
RECURSIVE GroupLoop_inv(_, _, _, _, _)
GroupLoop_inv(st, host_infos, hostname, group_preferences, j) ==
  IF j > Len(group_preferences) THEN st
  ELSE LET table == group_extractors_inv(host_infos)
           g == group_preferences[j]
       IN  IF g \notin DOMAIN table
           THEN [st EXCEPT !.exc = "KeyError"]
           ELSE LET r == table[g]
                    s1 == [st EXCEPT !.display.warnings = @ \cup r.warn]
                IN  IF r.val.kind = "raise" THEN [s1 EXCEPT !.exc = r.val.exc]
                    ELSE IF ~Truthy(r.val) THEN s1
                    ELSE GroupLoop_inv(
                           [s1 EXCEPT !.inventory =
                              add_host(add_group(@, r.val), hostname, r.val)],
                           host_infos, hostname, group_preferences, j + 1)

do_server_inventory_udf(st, host_infos, hostname_preference, group_preferences) ==
  LET r == _filter_host_udf(host_infos, hostname_preference)
      s1 == [st EXCEPT !.display.warnings = @ \cup r.warn]
  IN  IF r.val.kind = "raise" THEN [s1 EXCEPT !.exc = r.val.exc]
      ELSE IF ~Truthy(r.val) THEN s1
      ELSE LET s2 == [s1 EXCEPT !.inventory = add_host(@, r.val, None)]
               s3 == _fill_host_variables_udf(s2, r.val, host_infos)
           IN  IF s3.exc # "none" THEN s3
               ELSE GroupLoop_udf(s3, host_infos, r.val, group_preferences, 1)

\* variant of do_server_inventory: the host is registered and filled before the
\* hostname is tested
do_server_inventory_inv_late_check(st, host_infos, hostname_preferences, group_preferences) ==
  LET r == _filter_host_inv(host_infos, hostname_preferences)
      s1 == [st EXCEPT !.display.warnings = @ \cup r.warn]
  IN  IF r.val.kind = "raise" THEN [s1 EXCEPT !.exc = r.val.exc]
      ELSE LET s2 == [s1 EXCEPT !.inventory = add_host(@, r.val, None)]
               s3 == _fill_host_variables_inv(s2, r.val, host_infos)
           IN  IF s3.exc # "none" \/ ~Truthy(r.val) THEN s3
               ELSE GroupLoop_inv(s3, host_infos, r.val, group_preferences, 1)

do_server_inventory_inv(st, host_infos, hostname_preferences, group_preferences) ==
  LET r == _filter_host_inv(host_infos, hostname_preferences)
      s1 == [st EXCEPT !.display.warnings = @ \cup r.warn]
  IN  IF r.val.kind = "raise" THEN [s1 EXCEPT !.exc = r.val.exc]
      ELSE IF ~Truthy(r.val) THEN s1
      ELSE LET s2 == [s1 EXCEPT !.inventory = add_host(@, r.val, None)]
               s3 == _fill_host_variables_inv(s2, r.val, host_infos)
           IN  IF s3.exc # "none" THEN s3
               ELSE GroupLoop_inv(s3, host_infos, r.val, group_preferences, 1)

(***************************************************************************)
(* The fetch.  The response of the metadata endpoint is an input:          *)
(* open_url raises ("error"), or the body is not UTF-8, not JSON, or is    *)
(* the JSON value json.                                                    *)
(***************************************************************************)
\* variant of _fetch_information: one except clause around the request and the
\* decoding, so a body that cannot be decoded is reported like a failed request
_fetch_information_one_except(resp) ==
  CASE resp.status \in {"error", "bad_utf8", "bad_json"} ->
         [val |-> None, errors |-> {"An error happened while fetching"}]
    [] OTHER -> [val |-> resp.json, errors |-> {}]

_fetch_information(resp) ==
  CASE resp.status = "error" ->
         [val |-> None, errors |-> {"An error happened while fetching"}]
    [] resp.status \in {"bad_utf8", "bad_json"} ->
         [val |-> Raised("AnsibleError"), errors |-> {}]
    [] OTHER -> [val |-> resp.json, errors |-> {}]

\* group_preferences = self.get_option("groups"); None becomes []
group_preferences_of(opts) ==
  IF opts.groups = None THEN <<>> ELSE opts.groups.items

\* self.do_server_inventory(host_infos=component_info, ...) of the plugin file in use
do_server_inventory(file, st, host_infos, opts) ==
  IF file = "udf"
  THEN do_server_inventory_udf(st, host_infos, opts.hostname, group_preferences_of(opts))
  ELSE do_server_inventory_inv(st, host_infos, opts.hostnames, group_preferences_of(opts))

(***************************************************************************)
(* parse, in steps: the fetch and its outcomes, then one step per          *)
(* component of the payload.                                               *)
(***************************************************************************)
\* deployment_info is None: the error is displayed and parse returns
ParseFetchFailed ==
  /\ pc = "start"
  /\ LET r == _fetch_information(response) IN
     /\ r.val = None
     /\ display' = [display EXCEPT !.errors =
                      @ \cup r.errors \cup {"Error occurred. No inventory could be fetched"}]
  /\ pc' = "done"
  /\ UNCHANGED <<plugin_file, options, response, components, idx, inventory, exc>>

\* AnsibleError out of _fetch_information, or the payload has no deployment.components
ParseFetchRaised ==
  /\ pc = "start"
  /\ LET r == _fetch_information(response)
         c == GetKey(GetKey(r.val, "deployment"), "components")
     IN  /\ r.val # None
         /\ c.kind = "raise"
         /\ exc' = c.exc
  /\ pc' = "raised"
  /\ UNCHANGED <<plugin_file, options, response, components, idx, inventory, display>>

\* the payload is there: the loop over deployment_info['deployment']['components'] starts
ParseFetched ==
  /\ pc = "start"
  /\ LET r == _fetch_information(response)
         c == GetKey(GetKey(r.val, "deployment"), "components")
     IN  /\ r.val # None
         /\ c.kind = "list"
         /\ components' = c.items
  /\ idx' = 1
  /\ pc' = "loop"
  /\ UNCHANGED <<plugin_file, options, response, inventory, display, exc>>

\* one iteration of the loop: do_server_inventory on the next component
ParseComponent ==
  /\ pc = "loop"
  /\ idx <= Len(components)
  /\ LET st == do_server_inventory(plugin_file,
                                   [inventory |-> inventory, display |-> display, exc |-> "none"],
                                   components[idx], options)
     IN  /\ inventory' = st.inventory
         /\ display' = st.display
         /\ exc' = st.exc
         /\ IF st.exc = "none"
            THEN idx' = idx + 1 /\ pc' = "loop"
            ELSE idx' = idx /\ pc' = "raised"
  /\ UNCHANGED <<plugin_file, options, response, components>>

\* the loop is over: parse returns
ParseReturn ==
  /\ pc = "loop"
  /\ idx > Len(components)
  /\ pc' = "done"
  /\ UNCHANGED <<plugin_file, options, response, components, idx, inventory, display, exc>>

Next ==
  \/ ParseFetchFailed
  \/ ParseFetchRaised
  \/ ParseFetched
  \/ ParseComponent
  \/ ParseReturn

(***************************************************************************)
(* Inputs: the configuration and the response of the endpoint.             *)
(***************************************************************************)
SeqsUpTo(S, n) == UNION {[1..k -> S] : k \in 0..n}

Missing == [kind |-> "missing"]

\* a JSON object with the keys of f whose value is not Missing
MkDict(f) == Dict([k \in {x \in DOMAIN f : f[x] # Missing} |-> f[k]])

RawHostRecords(MgmtIps, Ids, Names, OsNames, AccessMethods) ==
  {MkDict([mgmtIp |-> m, id |-> i, name |-> n, osName |-> o, accessMethods |-> a]) :
     <<m, i, n, o, a>> \in MgmtIps \X Ids \X Names \X OsNames \X AccessMethods}

Payload(recs) == Dict([deployment |-> Dict([components |-> List(recs)])])

Responses(Records, n) ==
  {[status |-> s] : s \in {"error", "bad_utf8", "bad_json"}}
    \cup {[status |-> "ok", json |-> None], [status |-> "ok", json |-> Dict(EmptyDict)]}
    \cup {[status |-> "ok", json |-> Payload(recs)] : recs \in SeqsUpTo(Records, n)}

Options(file, HostnameIds, np, GroupIds, ng) ==
  LET Groups == {None} \cup {List(gs) : gs \in SeqsUpTo(GroupIds, ng)} IN
  IF file = "udf"
  THEN {[hostname |-> h, groups |-> g] : h \in HostnameIds, g \in Groups}
  ELSE {[hostnames |-> hs, groups |-> g] : hs \in SeqsUpTo(HostnameIds, np), g \in Groups}

InitWith(Files, HostnameIds, np, GroupIds, ng, Records, n) ==
  /\ plugin_file \in Files
  /\ options \in Options(plugin_file, HostnameIds, np, GroupIds, ng)
  /\ response \in Responses(Records, n)
  /\ pc = "start"
  /\ components = <<>>
  /\ idx = 0
  /\ inventory = EmptyInventory
  /\ display = EmptyDisplay
  /\ exc = "none"

IP == Str(<<"1", "0", ".", "0", ".", "0", ".", "5">>)
IP6 == Str(<<"1", "0", ".", "0", ".", "0", ".", "6">>)
H1 == Str(<<"h", "1">>)
WEB1 == Str(<<"w", "e", "b", "1">>)
CENTOS7 == Str(<<"C", "e", "n", "t", "O", "S", " ", "7">>)

\* shapes of accessMethods: an empty ssh list, a port that is null, a port
SshEmpty == Dict([ssh |-> List(<<>>)])
SshNullPort == Dict([ssh |-> List(<<Dict([internalPort |-> None])>>)])
Ssh22 == Dict([ssh |-> List(<<Dict([internalPort |-> PyInt(22)])>>)])

PluginFiles == {"udf", "udf_inventory"}

\* the characters OS names are made of
OsChars == {"C", " ", "."}
OsNames == {Str(cs) : cs \in SeqsUpTo(OsChars, MaxOsLen)}

\* Hostname resolution: every preference (list) over the ids of both plugin files,
\* records with mgmtIp and id present, empty, null or missing.
Init ==
  InitWith(PluginFiles, {"private_ipv4", "hostname", "id"}, MaxPrefs, {"os"}, 1,
           RawHostRecords({Missing, None, Str(<<>>), IP}, {Missing, H1}, {WEB1},
                          {CENTOS7}, {Missing}),
           MaxComponents)

Spec == Init /\ [][Next]_vars

\* Host variables: records whose fields are independently present, null or missing.
InitFields ==
  InitWith(PluginFiles, {"private_ipv4", "id"}, 1, {"os"}, 0,
           RawHostRecords({Missing, IP}, {Missing, H1}, {Missing, None, WEB1},
                          {Missing, CENTOS7}, {Missing, SshEmpty, SshNullPort, Ssh22}),
           MaxComponents)

SpecFields == InitFields /\ [][Next]_vars

\* Groups: every group preference list, records with any OS name, null or missing.
InitGroups ==
  InitWith(PluginFiles, {"private_ipv4"}, 1, {"os", "deployment"}, MaxGroups,
           RawHostRecords({IP, IP6}, {H1}, {WEB1}, {Missing, None} \cup OsNames, {Missing}),
           MaxComponents)

SpecGroups == InitGroups /\ [][Next]_vars

(***************************************************************************)
(* Vocabulary of the properties.                                           *)
(***************************************************************************)
\* the configured hostname preference(s), in order
HostnamePrefs == IF plugin_file = "udf" THEN <<options.hostname>> ELSE options.hostnames

GroupPrefs == group_preferences_of(options)

ExtractorTable(host_infos) ==
  IF plugin_file = "udf" THEN extractors_udf(host_infos) ELSE extractors_inv(host_infos)

KnownExtractorIds == DOMAIN ExtractorTable(Dict(EmptyDict))

KnownGroupIds == {"os"}

AllPrefsKnown == \A j \in 1..Len(HostnamePrefs) : HostnamePrefs[j] \in KnownExtractorIds

\* positions of the preference list whose extractor gives a present value
PresentPrefs(host_infos) ==
  {j \in 1..Len(HostnamePrefs) : Truthy(ExtractorTable(host_infos)[HostnamePrefs[j]].val)}

Min(S) == CHOOSE x \in S : \A y \in S : x <= y

\* the value of the first present preference
FirstPresent(host_infos) ==
  ExtractorTable(host_infos)[HostnamePrefs[Min(PresentPrefs(host_infos))]].val

\* what _filter_host of the plugin file in use returns
FilterHost(host_infos) ==
  IF plugin_file = "udf"
  THEN _filter_host_udf(host_infos, options.hostname).val
  ELSE _filter_host_inv(host_infos, options.hostnames).val

\* the loop is about to process components[idx]
AtComponent == pc = "loop" /\ idx <= Len(components)

\* components[1 .. idx-1] have been processed and none raised
Processed == IF pc \in {"loop", "done"} THEN 1..(idx - 1) ELSE {}

\* C1: a record whose hostname resolution yields absent (every configured
\* preference is known and none gives a truthy value) leaves the sink as it was:
\* no add_host, set_variable or add_group happens for it.
C1_AbsentHostnameNoSideEffect ==
  [][(AtComponent /\ AllPrefsKnown /\ PresentPrefs(components[idx]) = {})
       => inventory' = inventory]_vars

\* a record without hostname was skipped after another one had been registered
C1_Witness ==
  /\ pc = "loop" /\ idx = 3 /\ AllPrefsKnown
  /\ PresentPrefs(components[2]) = {}
  /\ inventory.hosts = {IP}
  /\ DOMAIN inventory.hostvars[IP] # {}

\* C2: with known extractor ids only, _filter_host returns the value of the first
\* preference, in list order, whose extractor gives a present value, and None only
\* when none does; the hosts registered are exactly these values.
C2_FirstPresentPreferenceWins ==
  AllPrefsKnown =>
    /\ \A k \in 1..Len(components) :
         IF PresentPrefs(components[k]) = {}
         THEN FilterHost(components[k]) = None
         ELSE FilterHost(components[k]) = FirstPresent(components[k])
    /\ inventory.hosts =
         {FirstPresent(components[k]) : k \in {x \in Processed : PresentPrefs(components[x]) # {}}}

\* both candidates are present and differ; the first of the list named the host
C2_Witness ==
  /\ plugin_file = "udf_inventory"
  /\ options.hostnames = <<"hostname", "private_ipv4">>
  /\ pc = "loop" /\ idx = 2
  /\ PresentPrefs(components[1]) = {1, 2}
  /\ inventory.hosts = {H1}

\* the variable attribute `a` should carry: the value of the attribute's own extractor
OwnExtractor(a, host_infos) ==
  CASE a = "public_ipv4" -> extract_public_ipv4(host_infos).val
    [] a = "private_ipv4" -> extract_private_ipv4(host_infos).val
    [] a = "internal_ssh_port" -> extract_internal_ssh_port(host_infos).val
    [] a = "name" -> extract_name(host_infos).val
    [] a = "id" -> extract_id(host_infos).val
    [] a = "os_name" -> extract_os_name(host_infos).val

\* C3: every variable of the host of the record processed last carries the value
\* of that attribute's own extractor for the record (id is the record's id).
C3_VariablesCarryOwnExtractor ==
  (AllPrefsKnown /\ Processed # {} /\ PresentPrefs(components[idx - 1]) # {}) =>
    LET rec == components[idx - 1]
        h == FirstPresent(rec)
    IN  \A a \in DOMAIN inventory.hostvars[h] :
          Truthy(OwnExtractor(a, rec)) => inventory.hostvars[h][a] = OwnExtractor(a, rec)

\* C4: no host of the sink has a variable that is None or empty.
C4_NoNullVariable ==
  \A h \in inventory.hosts :
    \A a \in DOMAIN inventory.hostvars[h] : Truthy(inventory.hostvars[h][a])

\* C5: when open_url raises, the pass displays the failure and returns with an
\* empty sink and no component processed; a body that is not UTF-8 or not JSON
\* raises AnsibleError, with the sink empty as well.
C5_FetchFailureZeroHosts ==
  /\ (response.status = "error" /\ pc # "start") =>
       /\ pc = "done"
       /\ display.errors # {}
       /\ inventory = EmptyInventory /\ idx = 0 /\ components = <<>>
  /\ (response.status \in {"bad_utf8", "bad_json"} /\ pc # "start") =>
       /\ pc = "raised" /\ exc = "AnsibleError"
       /\ inventory = EmptyInventory /\ idx = 0 /\ components = <<>>

\* the fetch failed and parse returned
C5_Witness ==
  /\ response.status = "error"
  /\ pc = "done"
  /\ "An error happened while fetching" \in display.errors
  /\ inventory.hosts = {}

\* the extractors of the plugin file in use, applied to a record
ExtractorResults(host_infos) ==
  {extract_private_ipv4(host_infos), extract_internal_ssh_port(host_infos),
   extract_name(host_infos), extract_id(host_infos), extract_os_name(host_infos)}
    \cup (IF plugin_file = "udf"
          THEN {extract_os_name_for_group(host_infos)}
          ELSE {extract_public_ipv4(host_infos), extract_hostname(host_infos),
                extract_deployment(host_infos)})

\* C6: once the pass is over, no extractor has raised for any record of the
\* payload, and the pass has not ended on an exception that escaped an extractor.
C6_NoExtractorRaises ==
  pc \in {"done", "raised"} =>
    /\ \A k \in 1..Len(components) :
         \A r \in ExtractorResults(components[k]) : r.val.kind # "raise"
    /\ exc \notin {"AttributeError", "TypeError", "IndexError"}

\* the label of group dimension g for a record: the normalized OS name
RECURSIVE NormalizedOsName(_)
NormalizedOsName(cs) ==
  IF cs = <<>> THEN <<>>
  ELSE <<IF Head(cs) \in {" ", "."} THEN "_" ELSE LowerChar(Head(cs))>>
         \o NormalizedOsName(Tail(cs))

HasOsName(host_infos) ==
  /\ "osName" \in DOMAIN host_infos.d
  /\ host_infos.d["osName"].kind = "str"
  /\ host_infos.d["osName"].s # <<>>

\* the label the plugin file in use derives for a known group dimension
GroupLabel(host_infos, g) ==
  IF plugin_file = "udf"
  THEN group_extractors_udf(host_infos)[g].val
  ELSE group_extractors_inv(host_infos)[g].val

\* C7: for every processed, registered record, every known group dimension of the
\* preference list that yields a label has its group created and the host in it,
\* whatever the dimensions before it yielded (absent or unknown).
C7_GroupDimensionsIndependent ==
  \A k \in Processed :
    PresentPrefs(components[k]) # {} =>
      \A j \in 1..Len(GroupPrefs) :
        (GroupPrefs[j] \in KnownGroupIds /\ Truthy(GroupLabel(components[k], GroupPrefs[j]))) =>
          LET g == GroupLabel(components[k], GroupPrefs[j]) IN
          /\ g \in inventory.groups
          /\ <<g, FirstPresent(components[k])>> \in inventory.children

\* C8: with groups = [os], the group of a processed, registered record is its
\* normalized OS name, in both plugin files.
C8_OsGroupIsNormalized ==
  (options.groups = List(<<"os">>)) =>
    \A k \in Processed :
      (PresentPrefs(components[k]) # {} /\ HasOsName(components[k])) =>
        LET g == Str(NormalizedOsName(components[k].d["osName"].s)) IN
        /\ g \in inventory.groups
        /\ <<g, FirstPresent(components[k])>> \in inventory.children

\* C9: an id of the hostname preference that is not in the extractor table never
\* makes the loop over the components raise.
C9_UnknownPreferenceNoCrash ==
  (~AllPrefsKnown /\ idx >= 1) => pc # "raised"

\* C10: a group dimension that is not in the group-extractor table is warned about
\* and skipped: the loop does not raise on it, and a registered record stays
\* registered with its variables, no group being created for the dimension.
C10_UnknownGroupWarnedAndSkipped ==
  (AllPrefsKnown /\ Len(GroupPrefs) >= 1 /\ GroupPrefs[1] \notin KnownGroupIds) =>
    /\ (pc = "raised" /\ idx >= 1) => exc # "KeyError"
    /\ \A k \in Processed :
         PresentPrefs(components[k]) # {} =>
           /\ "Invalid group name" \in display.warnings
           /\ FirstPresent(components[k]) \in inventory.hosts
           /\ DOMAIN inventory.hostvars[FirstPresent(components[k])] # {}
           /\ inventory.groups = {}

====
